---------------------------- MODULE Spec2Model ----------------------------
(***************************************************************************)
(* Model of the Whirlpool oven session manager                             *)
(* (custom_components/whirlpool_oven/coordinator.py): the snapshot merge,  *)
(* the OAuth / Cognito credential chain and the command sends.             *)
(*                                                                         *)
(* Python values are carried as follows.  A JSON object (a dict) is a      *)
(* function from its keys to JSON values; a JSON scalar is Leaf(text), a   *)
(* one-point function on "$" holding the scalar's JSON text; None is the   *)
(* string "None".  A coroutine is an operator from the session record, the *)
(* clock and the cloud's answers to the session record it leaves behind.   *)
(***************************************************************************)
EXTENDS Integers, Sequences, FiniteSets, TLC

VARIABLES
    state,                \* self._state, the live snapshot
    data,                 \* DataUpdateCoordinator.data, the last notified copy
    loop_queue,           \* callbacks handed to hass.loop, not yet run
    merged,               \* history: the last two updates merged, oldest first
    last_write,           \* history: per field, the value of the last update that had it
    access_token,         \* self._access_token
    refresh_token,        \* self._refresh_token
    token_expires,        \* self._token_expires
    entry_data,           \* the token triple of self._entry.data
    cognito_identity_id,  \* self._cognito_identity_id
    client_id,            \* self._client_id
    aws_creds,            \* self._aws_creds
    aws_creds_expire,     \* self._aws_creds_expire
    mqtt_connection,      \* self._mqtt_connection
    subscribed,           \* the topics the broker holds for that connection
    connecting,           \* the connection a suspended _connect_mqtt awaits from the worker
    favourites,           \* self._favourites
    registered,           \* hass.data[DOMAIN] holds the coordinator of the entry
    forwarded,            \* the entity platforms of the entry are set up
    setup_result,         \* what async_setup_entry returned, None before it has
    held,                 \* the snapshot value an observer holds, and whether it is self._state itself
    now,                  \* time.time()
    op,                   \* the handler that ran last, "tick" when time passed since
    op_arg,               \* the argument it was called with, None when it has none
    calls,                \* the network calls that handler made, in order
    notified,             \* the change notifications it delivered, in order
    raised                \* the exception that escaped it, or "none"

syncVars == <<state, data, loop_queue, merged, last_write>>
credVars == <<access_token, refresh_token, token_expires, entry_data,
              cognito_identity_id, client_id, aws_creds, aws_creds_expire>>
connVars == <<mqtt_connection, subscribed, connecting>>
favVars  == <<favourites>>
hostVars == <<registered, forwarded, setup_result>>
heldVars == <<held>>
obsVars  == <<op, op_arg, calls, notified, raised>>
vars     == <<syncVars, credVars, connVars, favVars, hostVars, heldVars, now, obsVars>>

-----------------------------------------------------------------------------
(* Python values *)

None == "None"

Leaf(text) == [k \in {"$"} |-> text]

\* isinstance(v, dict)
IsDict(v) == "$" \notin DOMAIN v

EmptyDict == <<>>

\* bool(x) of an optional string
Truthy(x) == x \notin {None, ""}

\* every dict with keys among K and values in V
PartialFns(K, V) == UNION { [D -> V] : D \in SUBSET K }

\* dict.update: the keys of u replace those of d, value for value
DictUpdate(d, u) ==
    [k \in (DOMAIN d) \cup (DOMAIN u) |-> IF k \in DOMAIN u THEN u[k] ELSE d[k]]

\* d.get(k, default)
Get(d, k, default) == IF k \in DOMAIN d THEN d[k] ELSE default

-----------------------------------------------------------------------------
(* Bounds *)

MaxQueue == 2

-----------------------------------------------------------------------------
(* Topics and inbound frames *)

\* the topic templates of const.py, for the one {model} and {said} of the
\* session, formatted with each client id the session can hold
TOPIC_STATE_UPDATE == "dt/{model}/{said}/state/update"

TOPIC_CMD_REQUEST(client) ==
    CASE client = "id1_ha" -> "cmd/{model}/{said}/request/id1_ha"
      [] client = "id2_ha" -> "cmd/{model}/{said}/request/id2_ha"
      [] client = None     -> "cmd/{model}/{said}/request/None"

TOPIC_CMD_RESPONSE(client) ==
    CASE client = "id1_ha" -> "cmd/{model}/{said}/response/id1_ha"
      [] client = "id2_ha" -> "cmd/{model}/{said}/response/id2_ha"
      [] client = None     -> "cmd/{model}/{said}/response/None"

\* "/state/update" in topic
IsStateTopic(topic) == topic = TOPIC_STATE_UPDATE

CavityFields == {"cavityState", "ovenDisplayTemperature"}
FieldTexts(f) == IF f = "cavityState" THEN {"preheating", "idle"} ELSE {"180"}
CavityMaps ==
    { m \in PartialFns(CavityFields, {Leaf(x) : x \in {"preheating", "idle", "180"}}) :
        \A f \in DOMAIN m : m[f] \in {Leaf(x) : x \in FieldTexts(f)} }

\* the partial state mappings the appliance sends
StateMappings == PartialFns({"primaryCavity"}, CavityMaps)

\* the envelope of a command response: requestId, and payload when it has one
ResponseEnvelopes ==
    { [k \in {"requestId"} |-> Leaf("r1")] }
    \cup { [k \in {"requestId", "payload"} |->
              IF k = "requestId" THEN Leaf("r1") ELSE p] :
           p \in StateMappings \cup {Leaf("null")} }

\* the bytes of a frame: how they decode, and the JSON value when they do
Bytes(enc, doc) == [enc |-> enc, doc |-> doc]
Payloads(topic) ==
    { Bytes("json", d) :
        d \in (IF IsStateTopic(topic) THEN StateMappings ELSE ResponseEnvelopes)
              \cup {Leaf("[1]")} }
    \cup { Bytes("not_json", EmptyDict), Bytes("not_utf8", EmptyDict) }

\* what the bytes of a frame are: no text, no JSON, a JSON mapping, other JSON
PayloadKind(payload) ==
    IF payload.enc # "json" THEN payload.enc
    ELSE IF IsDict(payload.doc) THEN "mapping" ELSE "not_mapping"

\* json.loads(payload): the value, or the exception it raises
JsonLoads(payload) ==
    CASE payload.enc = "json"     -> [exc |-> "none", value |-> payload.doc]
      [] payload.enc = "not_json" -> [exc |-> "JSONDecodeError", value |-> EmptyDict]
      [] payload.enc = "not_utf8" -> [exc |-> "UnicodeDecodeError", value |-> EmptyDict]

-----------------------------------------------------------------------------
(* State synchronizer *)

\* _on_mqtt_message up to the hand-off: what it schedules and what escapes it
on_mqtt_message(topic, payload) ==
    LET loaded == JsonLoads(payload) IN
    IF loaded.exc = "JSONDecodeError"
    THEN [exc |-> "none", schedule |-> FALSE, state_data |-> EmptyDict]
    ELSE IF loaded.exc # "none"
    THEN [exc |-> loaded.exc, schedule |-> FALSE, state_data |-> EmptyDict]
    ELSE LET d == loaded.value IN
         IF IsStateTopic(topic)
         THEN [exc |-> "none", schedule |-> IsDict(d), state_data |-> d]
         ELSE IF ~IsDict(d)
         THEN [exc |-> "AttributeError", schedule |-> FALSE, state_data |-> EmptyDict]
         ELSE LET sd == Get(d, "payload", d) IN
              [exc |-> "none", schedule |-> IsDict(sd), state_data |-> sd]

\* self._state = data: the frame takes the place of the snapshot
apply_state_update_replace(snapshot, update) == update

\* a merge that is not a dict.update: a key of the frame that the snapshot
\* holds already is taken out of it, a key it lacks is put in
apply_state_update_toggle(snapshot, update) ==
    [k \in ((DOMAIN snapshot) \cup (DOMAIN update))
              \ ((DOMAIN snapshot) \cap (DOMAIN update)) |->
        IF k \in DOMAIN update THEN update[k] ELSE snapshot[k]]

\* self._state.update(data)
apply_state_update(snapshot, update) == DictUpdate(snapshot, update)

\* what the worker thread leaves of the snapshot and of the event loop's queue
\* when it runs fn(arg) itself
call_in_place(snapshot, queue, fn, arg) ==
    [state |-> apply_state_update(snapshot, arg), loop_queue |-> queue]

\* self.hass.loop.call_soon_threadsafe(fn, arg) on the worker thread (line 349):
\* the snapshot is not touched, fn(arg) joins the event loop's queue
call_soon_threadsafe(snapshot, queue, fn, arg) ==
    [state |-> snapshot, loop_queue |-> Append(queue, [fn |-> fn, arg |-> arg])]

\* history only: the merge that keeps every field of every update
FieldwiseMerge(old, update) ==
    [k \in (DOMAIN old) \cup (DOMAIN update) |->
        IF k \notin DOMAIN update THEN old[k]
        ELSE IF k \in DOMAIN old /\ IsDict(old[k]) /\ IsDict(update[k])
        THEN DictUpdate(old[k], update[k])
        ELSE update[k]]

\* what an observer holds: the value, how it got it, and whether the value is
\* the dict self._state itself (alias) or another dict
NothingHeld == [via |-> "none", alias |-> FALSE, value |-> EmptyDict]

\* return self._state: the caller gets the live dict
LiveReference(via, snapshot) == [via |-> via, alias |-> TRUE, value |-> snapshot]

\* dict(self._state): the caller gets another dict with the same items
Copy(via, snapshot) == [via |-> via, alias |-> FALSE, value |-> snapshot]

\* what a holder sees once self._state has been changed in place
Seen(holder, snapshot) == IF holder.alias THEN [holder EXCEPT !.value = snapshot] ELSE holder

\* the content of the change notification of line 354, the full snapshot
\* after the notification that carries the merged frame only
notification_delta(snapshot, update) == update

notification(snapshot, update) == snapshot

LastTwo(seq) == IF Len(seq) <= 2 THEN seq ELSE SubSeq(seq, Len(seq) - 1, Len(seq))

\* a frame arrives on the connection's worker thread, on a topic the
\* callback was subscribed to (line 326)
OnMqttMessage ==
    \E topic \in subscribed : \E payload \in Payloads(topic) :
        LET r == on_mqtt_message(topic, payload)
            after == IF r.schedule
                     THEN call_soon_threadsafe(state, loop_queue,
                                               "_apply_state_update", r.state_data)
                     ELSE [state |-> state, loop_queue |-> loop_queue]
        IN
        /\ Len(loop_queue) < MaxQueue
        /\ state' = after.state
        /\ loop_queue' = after.loop_queue
        /\ op' = "_on_mqtt_message"
        /\ op_arg' = PayloadKind(payload)
        /\ calls' = <<>>
        /\ notified' = <<>>
        /\ raised' = r.exc
        /\ UNCHANGED <<data, merged, last_write, credVars, connVars, favVars,
                       hostVars, heldVars, now>>

\* the event loop runs the oldest scheduled _apply_state_update
ApplyStateUpdate ==
    /\ loop_queue # <<>>
    /\ Head(loop_queue).fn = "_apply_state_update"
    /\ LET update == Head(loop_queue).arg IN
       /\ state' = apply_state_update(state, update)
       /\ data' = notification(state', update)
       /\ notified' = <<data'>>
       /\ merged' = LastTwo(Append(merged, update))
       /\ last_write' = FieldwiseMerge(last_write, update)
    /\ held' = Seen(held, state')
    /\ loop_queue' = Tail(loop_queue)
    /\ op' = "_apply_state_update"
    /\ op_arg' = None
    /\ calls' = <<>>
    /\ raised' = "none"
    /\ UNCHANGED <<credVars, connVars, favVars, hostVars, now>>


-----------------------------------------------------------------------------
(* The clock *)

\* seconds between two readings of the clock, and how many the model takes
TickSeconds == 300
MaxTicks == 2

\* _REFRESH_BUFFER
REFRESH_BUFFER == 300

\* the expires_in that _do_auth assumes when the response has none
DEFAULT_EXPIRES_IN == 3600

Instants == { k * TickSeconds : k \in 0..MaxTicks }

-----------------------------------------------------------------------------
(* The cloud's answers.  An answer is a status and a JSON body, the body a  *)
(* dict from field names to the texts of its scalars.                      *)

Response(status, body) == [status |-> status, body |-> body]

\* lifetimes the token endpoint announces, and those of temporary credentials
ExpiresInValues == {REFRESH_BUFFER, 3 * REFRESH_BUFFER}
CredLifetimes == {REFRESH_BUFFER, 3 * REFRESH_BUFFER}

\* the numbers whose text a response may carry
Numbers ==
    ExpiresInValues \cup { t + d : t \in Instants, d \in CredLifetimes }
    \cup {180, 600}

\* float(text): defined on the texts of numbers, ValueError on the rest
IsNumeric(text) == \E n \in Numbers : ToString(n) = text
ToFloat(text) == CHOOSE n \in Numbers : ToString(n) = text

\* HTTP status other than success, and a request that raises (no network, a
\* timeout, a body that is no JSON)
Failures ==
    { Response(st, EmptyDict) : st \in {"http_error", "network_error", "bad_json"} }

\* bodies of the token endpoint: complete ones, with each expires_in the model
\* knows, and ones with an empty token, a field missing or an expires_in that
\* is no number
OAuthBodies ==
    { [access_token |-> "a1", refresh_token |-> "r1", expires_in |-> ToString(n)] :
        n \in ExpiresInValues }
    \cup { [access_token |-> "a1", refresh_token |-> "r1"],
           [access_token |-> "a1", refresh_token |-> "",
            expires_in |-> ToString(REFRESH_BUFFER)],
           [access_token |-> "", refresh_token |-> "r1"],
           [refresh_token |-> "r1"],
           [access_token |-> "a1"],
           [access_token |-> "a1", refresh_token |-> "r1", expires_in |-> "soon"] }

IdentityBodies ==
    { [identityId |-> "id1", token |-> "oidc"],
      [identityId |-> "id2", token |-> "oidc"],
      [token |-> "oidc"],
      [identityId |-> "id1"] }

\* answers of GetCredentialsForIdentity at instant t: the Credentials member
CredentialBodies(t) ==
    { [AccessKeyId |-> "k1", Expiration |-> ToString(t + d)] : d \in CredLifetimes }
    \cup { [AccessKeyId |-> "k2", Expiration |-> ToString(t + 3 * REFRESH_BUFFER)],
           [AccessKeyId |-> "k1"],
           [Expiration |-> ToString(t + 3 * REFRESH_BUFFER)] }

\* the path of lines 445-450 down to the list of cycles
CyclePath(cycles) == [cycleMyCreation |-> [entityCycle |-> [myCreationCycle |-> cycles]]]

\* cycles as the cloud stores them: every field, some fields, a target
\* temperature that is no number, a name that is empty
FullCycle == [CycleName |-> "Pizza", CavityTargetTemp |-> "180",
              PreheatType |-> "fast", CookTimeSetTime |-> "600"]
PreheatOnlyCycle == [PreheatType |-> "fast"]
WordTemperatureCycle == [CycleName |-> "Roast", CavityTargetTemp |-> "hot"]
EmptyNameCycle == [CycleName |-> "", CookTimeSetTime |-> "600"]

\* the favoriteCycles entries of the favourites answer
CloudFavourites ==
    [f1 |-> [id |-> "f1", name |-> "Pizza", cavity |-> "secondaryCavity",
             cycleInfo |-> CyclePath(<<FullCycle>>)],
     f2 |-> [id |-> "f2", cycleInfo |-> CyclePath(<<>>)],
     f3 |-> [id |-> "f3", name |-> "Bread"],
     f4 |-> [id |-> "f4", cycleInfo |-> CyclePath(<<WordTemperatureCycle>>)],
     f5 |-> [id |-> "f5", cycleInfo |-> CyclePath(<<PreheatOnlyCycle, FullCycle>>)],
     f6 |-> [id |-> "f6", cycleInfo |-> CyclePath(<<EmptyNameCycle>>)]]

\* the ids a caller may ask for: the cloud's, and one that is nobody's
FavIds == DOMAIN CloudFavourites \cup {"f0"}

\* bodies of the favourites answer: two lists of favourites, a list beside an
\* entry without favoriteCycles, an object without favoritesList, and a JSON
\* array where the object should be
FavouriteBodies ==
    { [favoritesList |-> << [favoriteCycles |-> <<CloudFavourites.f1, CloudFavourites.f2>>],
                            [favoriteCycles |-> <<CloudFavourites.f3>>] >>],
      [favoritesList |-> << [favoriteCycles |-> <<CloudFavourites.f4, CloudFavourites.f5,
                                                  CloudFavourites.f6>>],
                            [name |-> "empty"] >>],
      EmptyDict,
      Leaf("[]") }

\* what an endpoint may answer at instant t.  The "any" cloud answers with
\* every status and body above; the "plain" cloud either fails or answers in
\* full, which is what the specifications of the whole session take.  The
\* "slow" cloud is the plain one whose answer to connect may still be pending
\* when other coroutines of the event loop run.
RECURSIVE Responses(_, _, _)
Responses(cloud, endpoint, t) ==
    CASE cloud = "slow" ->
            IF endpoint = "mqtt_connect"
            THEN Responses("plain", endpoint, t) \cup { Response("pending", EmptyDict) }
            ELSE Responses("plain", endpoint, t)
      [] endpoint = "oauth_token" /\ cloud = "any" ->
            Failures \cup { Response("ok", b) : b \in OAuthBodies }
      [] endpoint = "oauth_token" /\ cloud = "plain" ->
            { Response("http_error", EmptyDict),
              Response("ok", [access_token |-> "a1", refresh_token |-> "r1"]) }
      [] endpoint = "cognito_identityid" /\ cloud = "any" ->
            Failures \cup { Response("ok", b) : b \in IdentityBodies }
      [] endpoint = "cognito_identityid" /\ cloud = "plain" ->
            { Response("http_error", EmptyDict) }
            \cup { Response("ok", [identityId |-> i, token |-> "oidc"]) : i \in {"id1", "id2"} }
      [] endpoint = "GetCredentialsForIdentity" /\ cloud = "any" ->
            { Response("network_error", EmptyDict) }
            \cup { Response("ok", b) : b \in CredentialBodies(t) }
      [] endpoint = "GetCredentialsForIdentity" /\ cloud = "plain" ->
            { Response("network_error", EmptyDict) }
            \cup { Response("ok", [AccessKeyId |-> k,
                                   Expiration |-> ToString(t + 3 * REFRESH_BUFFER)]) :
                     k \in {"k1", "k2"} }
      [] endpoint = "favorites" ->
            Failures \cup { Response("ok", b) : b \in FavouriteBodies }
      [] endpoint = "mqtt_disconnect" ->
            { Response(st, EmptyDict) : st \in {"ok", "network_error", "timeout"} }
      [] endpoint = "oauth_token" /\ cloud = "up" ->
            { Response("ok", [access_token |-> "a1", refresh_token |-> "r1"]) }
      [] endpoint = "cognito_identityid" /\ cloud = "up" ->
            { Response("ok", [identityId |-> "id1", token |-> "oidc"]) }
      [] endpoint = "GetCredentialsForIdentity" /\ cloud = "up" ->
            { Response("ok", [AccessKeyId |-> "k1",
                              Expiration |-> ToString(t + 3 * REFRESH_BUFFER)]) }
      [] OTHER ->
            IF cloud = "up" /\ endpoint # "mqtt_publish"
            THEN { Response("ok", EmptyDict) }
            ELSE { Response("ok", EmptyDict), Response("network_error", EmptyDict) }

-----------------------------------------------------------------------------
(* The session record a coroutine works on: the fields of the coordinator,  *)
(* the answers the cloud will give to its next calls (script), the endpoint *)
(* it waits on when they are used up (need), the calls made, the exception  *)
(* raised and the value returned.                                           *)

Tokens(s) == [access_token  |-> s.access_token,
              refresh_token |-> s.refresh_token,
              token_expires |-> s.token_expires]

Stopped(s) == s.raised # "none" \/ s.need # "none" \/ s.suspended

Raise(s, exc) == [s EXCEPT !.raised = exc]

Return(s, value) == [s EXCEPT !.ret = value]

\* the coroutine awaits a call to endpoint with no answer at hand
Await(s, endpoint) == [s EXCEPT !.need = endpoint]

\* the call is sent and answered
Sent(s, endpoint, topic, arg) ==
    [s EXCEPT !.script = Tail(@),
              !.calls = Append(@, [endpoint |-> endpoint, topic |-> topic, arg |-> arg,
                                   ok |-> Head(s.script).status = "ok"])]

-----------------------------------------------------------------------------
(* Credential chain *)

\* the comparison of line 134 turned round
is_token_valid_reversed(s, t) ==
    Truthy(s.access_token) /\ t > s.token_expires - REFRESH_BUFFER

is_token_valid(s, t) ==
    Truthy(s.access_token) /\ t < s.token_expires - REFRESH_BUFFER

\* hass.config_entries.async_update_entry(self._entry, data=new_data)
async_update_entry(s) == [s EXCEPT !.entry_data = Tokens(s)]

\* lines 180-193: the tokens are stored one by one, then persisted
do_auth_store(sent, d, t) ==
    IF "refresh_token" \notin DOMAIN d
    THEN Raise([sent EXCEPT !.access_token = d.access_token], "KeyError")
    ELSE IF "expires_in" \in DOMAIN d /\ ~IsNumeric(d.expires_in)
    THEN Raise([sent EXCEPT !.access_token = d.access_token,
                            !.refresh_token = d.refresh_token], "ValueError")
    ELSE Return(async_update_entry(
                    [sent EXCEPT !.access_token = d.access_token,
                                 !.refresh_token = d.refresh_token,
                                 !.token_expires =
                                     t + (IF "expires_in" \in DOMAIN d
                                          THEN ToFloat(d.expires_in)
                                          ELSE DEFAULT_EXPIRES_IN)]),
                TRUE)

\* lines 162-180: the answer of the token endpoint
do_auth_response(sent, resp, t) ==
    IF resp.status # "ok" THEN Return(sent, FALSE)
    ELSE IF "access_token" \notin DOMAIN resp.body THEN Raise(sent, "KeyError")
    ELSE do_auth_store(sent, resp.body, t)

do_auth(s, use_refresh, t) ==
    IF Len(s.script) = 0 THEN Await(s, "oauth_token")
    ELSE do_auth_response(
             Sent(s, "oauth_token", None, IF use_refresh THEN "refresh_token" ELSE "password"),
             Head(s.script), t)

\* lines 144-145: b is the session after the password grant
ensure_auth_password(b) ==
    IF Stopped(b) \/ b.ret THEN b ELSE Raise(b, "AuthenticationError")

\* line 142 without its return: the password grant is sent after a refresh that succeeded
ensure_auth_fallback_no_return(a, t) ==
    IF Stopped(a) THEN a ELSE ensure_auth_password(do_auth(a, FALSE, t))

\* lines 141-144: a is the session after the refresh-token grant, if one was sent
ensure_auth_fallback(a, t) ==
    IF Stopped(a) \/ a.ret THEN a ELSE ensure_auth_password(do_auth(a, FALSE, t))

\* lines 141-142 left out: the refresh token is never used
ensure_auth_password_only(s, t) ==
    IF is_token_valid(s, t) THEN s ELSE ensure_auth_fallback(Return(s, FALSE), t)

ensure_auth(s, t) ==
    IF is_token_valid(s, t) THEN s
    ELSE IF Truthy(s.refresh_token) THEN ensure_auth_fallback(do_auth(s, TRUE, t), t)
    ELSE ensure_auth_fallback(Return(s, FALSE), t)

\* the comparison of line 200 turned round
is_cognito_valid_reversed(s, t) ==
    s.aws_creds # None /\ t > s.aws_creds_expire - REFRESH_BUFFER

is_cognito_valid(s, t) ==
    s.aws_creds # None /\ t < s.aws_creds_expire - REFRESH_BUFFER

\* f"{identity_id}_ha"
ClientIdOf(identity_id) ==
    CASE identity_id = "id1" -> "id1_ha"
      [] identity_id = "id2" -> "id2_ha"

\* _get_aws_creds_sync: the credentials and their expiry, or the exception
get_aws_creds_sync(resp) ==
    LET c == resp.body IN
    IF resp.status # "ok" THEN [exc |-> "ClientError", creds |-> None, expire_ts |-> 0]
    ELSE IF "AccessKeyId" \notin DOMAIN c THEN [exc |-> "KeyError", creds |-> None, expire_ts |-> 0]
    ELSE IF "Expiration" \notin DOMAIN c THEN [exc |-> "none", creds |-> c.AccessKeyId, expire_ts |-> 0]
    ELSE IF ~IsNumeric(c.Expiration) THEN [exc |-> "ValueError", creds |-> None, expire_ts |-> 0]
    ELSE [exc |-> "none", creds |-> c.AccessKeyId, expire_ts |-> ToFloat(c.Expiration)]

\* lines 237-238: got is what _get_aws_creds_sync returned or raised
cognito_store(c, got) ==
    IF got.exc # "none" THEN Raise(c, "CredentialExchangeError")
    ELSE [c EXCEPT !.aws_creds = got.creds, !.aws_creds_expire = got.expire_ts]

\* lines 228-235, step 2: the OpenID token for temporary AWS credentials
cognito_exchange(b, identity_id) ==
    IF Len(b.script) = 0 THEN Await(b, "GetCredentialsForIdentity")
    ELSE cognito_store(Sent(b, "GetCredentialsForIdentity", None, identity_id),
                       get_aws_creds_sync(Head(b.script)))

\* line 226 moved behind step 2: the client id is stored only once the
\* credential exchange has succeeded
cognito_identity_client_late(sent, resp) ==
    IF resp.status # "ok" THEN Raise(sent, "CredentialExchangeError")
    ELSE IF "identityId" \notin DOMAIN resp.body THEN Raise(sent, "KeyError")
    ELSE IF "token" \notin DOMAIN resp.body THEN Raise(sent, "KeyError")
    ELSE IF Stopped(cognito_exchange(
                        [sent EXCEPT !.cognito_identity_id = resp.body.identityId],
                        resp.body.identityId))
         THEN cognito_exchange([sent EXCEPT !.cognito_identity_id = resp.body.identityId],
                               resp.body.identityId)
    ELSE [cognito_exchange([sent EXCEPT !.cognito_identity_id = resp.body.identityId],
                           resp.body.identityId)
             EXCEPT !.client_id = ClientIdOf(resp.body.identityId)]

\* lines 218-226: the answer of the identity endpoint
cognito_identity(sent, resp) ==
    IF resp.status # "ok" THEN Raise(sent, "CredentialExchangeError")
    ELSE IF "identityId" \notin DOMAIN resp.body THEN Raise(sent, "KeyError")
    ELSE IF "token" \notin DOMAIN resp.body THEN Raise(sent, "KeyError")
    ELSE cognito_exchange(
             [sent EXCEPT !.cognito_identity_id = resp.body.identityId,
                          !.client_id = ClientIdOf(resp.body.identityId)],
             resp.body.identityId)

\* lines 208-217, step 1: the OAuth token for a Cognito OpenID token
cognito_request(a) ==
    IF Stopped(a) THEN a
    ELSE IF Len(a.script) = 0 THEN Await(a, "cognito_identityid")
    ELSE cognito_identity(Sent(a, "cognito_identityid", None, a.access_token), Head(a.script))

\* line 206 refreshing the OAuth tier without asking whether it is valid
ensure_cognito_creds_reauth(s, t) ==
    IF is_cognito_valid(s, t) THEN s
    ELSE cognito_request(ensure_auth_fallback(do_auth(s, TRUE, t), t))

ensure_cognito_creds(s, t) ==
    IF is_cognito_valid(s, t) THEN s ELSE cognito_request(ensure_auth(s, t))

-----------------------------------------------------------------------------
(* Device channel *)

\* a connection object: the client id and the credentials it was opened with
Connection(client, creds) == [obj |-> "Connection", client_id |-> client, aws_creds |-> creds]

\* self._mqtt_connection = None
NoConnection == [obj |-> "None", client_id |-> None, aws_creds |-> None]

IsNone(connection) == connection.obj = "None"

\* lines 323-328: the answer to one subscribe
subscribe_result(sent, resp, topic) ==
    IF resp.status # "ok" THEN Raise(sent, "AwsCrtError")
    ELSE [sent EXCEPT !.subscribed = @ \cup {topic}]

\* lines 322-329: one turn of the loop over topics
subscribe_one(s, topic) ==
    IF Stopped(s) THEN s
    ELSE IF IsNone(s.mqtt_connection) THEN Raise(s, "AttributeError")
    ELSE IF Len(s.script) = 0 THEN Await(s, "mqtt_subscribe")
    ELSE subscribe_result(Sent(s, "mqtt_subscribe", topic, "AT_LEAST_ONCE"),
                          Head(s.script), topic)

subscribe_topics(s) ==
    subscribe_one(subscribe_one(s, TOPIC_STATE_UPDATE), TOPIC_CMD_RESPONSE(s.client_id))

\* lines 303-309: the answer to connect
connect_result(sent, resp) ==
    IF resp.status # "ok" THEN Raise(sent, "ChannelConnectError")
    ELSE subscribe_topics(
             [sent EXCEPT !.mqtt_connection = Connection(sent.client_id, sent.aws_creds),
                          !.subscribed = {}])

\* line 304: the coroutine is suspended at its await while the worker opens the
\* connection with the client id and credentials read at lines 276-300
connect_suspend(sent) ==
    [sent EXCEPT !.connecting = Connection(sent.client_id, sent.aws_creds),
                 !.suspended = TRUE]

\* lines 304-309: the worker has answered and the coroutine goes on; the
\* connection it assigns is the one the worker opened
connect_resume(s) ==
    IF Len(s.script) = 0 THEN Await(s, "mqtt_connect")
    ELSE IF Head(s.script).status # "ok"
         THEN Raise([s EXCEPT !.script = Tail(@), !.connecting = NoConnection],
                    "ChannelConnectError")
    ELSE subscribe_topics([s EXCEPT !.script = Tail(@),
                                    !.mqtt_connection = s.connecting,
                                    !.subscribed = {},
                                    !.connecting = NoConnection])

\* lines 276-304: a is the session after _ensure_cognito_creds
connect_open(a) ==
    IF Stopped(a) THEN a
    ELSE IF Len(a.script) = 0 THEN Await(a, "mqtt_connect")
    ELSE IF Head(a.script).status = "pending"
         THEN connect_suspend(Sent(a, "mqtt_connect", None, a.client_id))
    ELSE connect_result(Sent(a, "mqtt_connect", None, a.client_id), Head(a.script))

\* the client id read before line 275 instead of after it: the connection
\* is opened under the identifier of the identity held before the refresh
connect_mqtt_stale_client(s, t) ==
    IF IsNone(connect_open(ensure_cognito_creds(s, t)).mqtt_connection)
    THEN connect_open(ensure_cognito_creds(s, t))
    ELSE [connect_open(ensure_cognito_creds(s, t)) EXCEPT !.mqtt_connection.client_id = s.client_id]

connect_mqtt(s, t) == connect_open(ensure_cognito_creds(s, t))

\* lines 122-125 inside the try: the handle is kept when disconnect fails
async_shutdown_keeps_handle(s) ==
    IF IsNone(s.mqtt_connection) THEN s
    ELSE IF Len(s.script) = 0 THEN Await(s, "mqtt_disconnect")
    ELSE IF Head(s.script).status # "ok"
         THEN Sent(s, "mqtt_disconnect", None, s.mqtt_connection.client_id)
    ELSE [Sent(s, "mqtt_disconnect", None, s.mqtt_connection.client_id)
             EXCEPT !.mqtt_connection = NoConnection, !.subscribed = {}]

async_shutdown(s) ==
    IF IsNone(s.mqtt_connection) THEN s
    ELSE IF Len(s.script) = 0 THEN Await(s, "mqtt_disconnect")
    ELSE [Sent(s, "mqtt_disconnect", None, s.mqtt_connection.client_id)
             EXCEPT !.mqtt_connection = NoConnection, !.subscribed = {}]

\* line 513: b is the session after _ensure_cognito_creds
reconnect_connect(b, t) == IF Stopped(b) THEN b ELSE connect_mqtt(b, t)

\* line 512: a is the session after async_shutdown
reconnect_creds(a, t) ==
    IF Stopped(a) THEN a ELSE reconnect_connect(ensure_cognito_creds(a, t), t)

async_shutdown_and_reconnect(s, t) == reconnect_creds(async_shutdown(s), t)

\* the entry _on_mqtt_resumed hands to the event loop
ResubscribeCallback == [fn |-> "_subscribe_topics", arg |-> EmptyDict]

\* line 365 left out: resubscribes whether or not the broker kept the session
on_mqtt_resumed_always(queue, session_present) == Append(queue, ResubscribeCallback)

\* lines 359-367, on the connection's worker thread: the queue of the event loop after it
on_mqtt_resumed(queue, session_present) ==
    IF ~session_present THEN Append(queue, ResubscribeCallback) ELSE queue

-----------------------------------------------------------------------------
(* Command dispatcher *)

CMD_GET_STATE == "getState"
CMD_RUN == "run"
CMD_CANCEL == "cancel"
CMD_SET == "set"

\* lines 385-394: the answer to publish
publish_result(sent, resp) ==
    IF resp.status # "ok" THEN Raise(sent, "AwsCrtError") ELSE sent

\* the call carries the payload; requestId and timestamp are left out
publish_command(s, payload) ==
    IF IsNone(s.mqtt_connection) THEN s
    ELSE IF Len(s.script) = 0 THEN Await(s, "mqtt_publish")
    ELSE publish_result(Sent(s, "mqtt_publish", TOPIC_CMD_REQUEST(s.client_id), payload),
                        Head(s.script))

\* the session id is a fresh uuid: the snapshots of this model carry no sessionId
async_stop_cooking(s) ==
    publish_command(s, [addressee |-> "primaryCavity", command |-> CMD_CANCEL,
                        sessionId |-> "uuid4"])

async_set_cavity_light(s) ==
    publish_command(s, [addressee |-> "primaryCavity", command |-> CMD_SET,
                        cavityLight |-> "on"])

-----------------------------------------------------------------------------
(* Favourites *)

\* lines 420-427: the favourite stored for one fetched cycle
stored_favourite(cycle) ==
    [id        |-> Get(cycle, "id", ""),
     name      |-> Get(cycle, "name", "Unnamed"),
     cavity    |-> Get(cycle, "cavity", "primaryCavity"),
     cycleInfo |-> Get(cycle, "cycleInfo", EmptyDict)]

\* lines 419-427: the inner loop
favourites_of(fav_list) ==
    [i \in DOMAIN Get(fav_list, "favoriteCycles", <<>>) |->
        stored_favourite(fav_list.favoriteCycles[i])]

\* lines 417-427: the outer loop, over the lists from the i-th on
RECURSIVE flatten_favourites(_, _)
flatten_favourites(lists, i) ==
    IF i > Len(lists) THEN <<>>
    ELSE favourites_of(lists[i]) \o flatten_favourites(lists, i + 1)

\* lines 416-429: the answer is read and the list replaced
fetch_favourites_store(sent, body) ==
    IF ~IsDict(body) THEN Raise(sent, "AttributeError")
    ELSE [sent EXCEPT !.favourites =
              flatten_favourites(Get(body, "favoritesList", <<>>), 1)]

\* lines 410-414: the answer to the GET
fetch_favourites_response(sent, resp) ==
    IF resp.status # "ok" THEN sent ELSE fetch_favourites_store(sent, resp.body)

\* lines 400-409: a is the session after _ensure_auth
fetch_favourites_request(a) ==
    IF Stopped(a) THEN a
    ELSE IF Len(a.script) = 0 THEN Await(a, "favorites")
    ELSE fetch_favourites_response(Sent(a, "favorites", None, a.access_token), Head(a.script))

fetch_favourites(s, t) == fetch_favourites_request(ensure_auth(s, t))

\* line 440: the position of the first favourite with the id, 0 when there is none
FindFavourite(favs, fav_id) ==
    IF \E i \in DOMAIN favs : favs[i].id = fav_id
    THEN CHOOSE i \in DOMAIN favs :
             favs[i].id = fav_id /\ \A j \in DOMAIN favs : favs[j].id = fav_id => i <= j
    ELSE 0

\* lines 445-450
CyclesOf(fav) ==
    Get(Get(Get(Get(fav, "cycleInfo", EmptyDict), "cycleMyCreation", EmptyDict),
            "entityCycle", EmptyDict),
        "myCreationCycle", <<>>)

\* if value := cycle.get(field)
Has(cycle, field) == Truthy(Get(cycle, field, None))

\* lines 456-468: the keys of the run command
run_keys(cycle) ==
    {"addressee", "command", "sessionId"}
    \cup (IF Has(cycle, "CycleName") THEN {"recipeId"} ELSE {})
    \cup (IF Has(cycle, "CavityTargetTemp") THEN {"targetTemperature"} ELSE {})
    \cup (IF Has(cycle, "PreheatType") THEN {"preheat"} ELSE {})
    \cup (IF Has(cycle, "CookTimeSetTime") THEN {"cookTimer"} ELSE {})

\* lines 456-468: the run command
run_payload(fav, cycle) ==
    [k \in run_keys(cycle) |->
        CASE k = "addressee"         -> fav.cavity
          [] k = "command"           -> CMD_RUN
          [] k = "sessionId"         -> "uuid4"
          [] k = "recipeId"          -> cycle.CycleName
          [] k = "targetTemperature" -> ToFloat(cycle.CavityTargetTemp)
          [] k = "preheat"           -> cycle.PreheatType
          [] k = "cookTimer"         ->
                 [command |-> CMD_RUN, time |-> ToFloat(cycle.CookTimeSetTime)]]

\* float(target_temp), int(float(cook_time)) on a text that is no number
run_raises(cycle) ==
    \/ Has(cycle, "CavityTargetTemp") /\ ~IsNumeric(cycle.CavityTargetTemp)
    \/ Has(cycle, "CookTimeSetTime") /\ ~IsNumeric(cycle.CookTimeSetTime)

\* lines 455-471
trigger_cycle(s, fav, cycle) ==
    IF run_raises(cycle) THEN Raise(s, "ValueError")
    ELSE publish_command(s, run_payload(fav, cycle))

\* lines 445-455
trigger_found(s, fav) ==
    IF CyclesOf(fav) = <<>> THEN s ELSE trigger_cycle(s, fav, CyclesOf(fav)[1])

async_trigger_favourite(s, fav_id) ==
    IF FindFavourite(s.favourites, fav_id) = 0 THEN s
    ELSE trigger_found(s, s.favourites[FindFavourite(s.favourites, fav_id)])

-----------------------------------------------------------------------------
(* Periodic health check *)

\* the try block without its except clause
update_reraise(a) == a

\* lines 504-505: whatever the try block raised is logged, nothing escapes
update_swallow(a) == IF a.need # "none" THEN a ELSE [a EXCEPT !.raised = "none"]

\* line 502: b is the session the poll is published on
update_poll(b) ==
    IF Stopped(b) THEN b
    ELSE publish_command(b, [addressee |-> "appliance", command |-> CMD_GET_STATE])

\* line 500 without the teardown: stale credentials are derived anew under a
\* connection that stays
update_reconnect_keeps_connection(a, t) ==
    IF Stopped(a) THEN a
    ELSE IF IsNone(a.mqtt_connection)
         THEN update_poll(async_shutdown_and_reconnect(a, t))
         ELSE update_poll(ensure_cognito_creds(a, t))

\* the test of line 499 without its second half: a missing handle alone does
\* not bring a reconnect
update_reconnect_stale_only(a, t) ==
    IF Stopped(a) THEN a
    ELSE IF ~is_cognito_valid(a, t)
         THEN update_poll(async_shutdown_and_reconnect(a, t))
         ELSE update_poll(a)

\* lines 499-500: a is the session after _ensure_auth
update_reconnect(a, t) ==
    IF Stopped(a) THEN a
    ELSE IF ~is_cognito_valid(a, t) \/ IsNone(a.mqtt_connection)
         THEN update_poll(async_shutdown_and_reconnect(a, t))
         ELSE update_poll(a)

\* _async_update_data up to its return; what it returns is self._state
async_update_data(s, t) == update_swallow(update_reconnect(ensure_auth(s, t), t))

\* _async_update_data from the answer to the connect it was suspended on:
\* lines 304-309, then the poll of line 502 inside the try of line 496
update_resume(s) == update_swallow(update_poll(connect_resume(s)))

-----------------------------------------------------------------------------
(* Setup of the entry *)

\* line 113: d is the session after _fetch_favourites
setup_poll(d) ==
    IF Stopped(d) THEN d
    ELSE publish_command(d, [addressee |-> "appliance", command |-> CMD_GET_STATE])

\* line 112: c is the session after _connect_mqtt
setup_favourites(c, t) == IF Stopped(c) THEN c ELSE setup_poll(fetch_favourites(c, t))

\* line 111: b is the session after _ensure_cognito_creds
setup_connect(b, t) == IF Stopped(b) THEN b ELSE setup_favourites(connect_mqtt(b, t), t)

\* line 110: a is the session after _ensure_auth
setup_creds(a, t) == IF Stopped(a) THEN a ELSE setup_connect(ensure_cognito_creds(a, t), t)

async_setup(s, t) == setup_creds(ensure_auth(s, t), t)

\* __init__.py, line 29 moved before the try: the coordinator is registered
\* and its platforms set up whether or not async_setup raised
setup_entry_result_registers_first(a) ==
    IF a.need # "none" THEN a
    ELSE IF a.raised # "none"
    THEN [a EXCEPT !.raised = "none", !.registered = TRUE, !.forwarded = TRUE,
                   !.setup_result = "False"]
    ELSE [a EXCEPT !.registered = TRUE, !.forwarded = TRUE, !.setup_result = "True"]

\* __init__.py, lines 23-33: a is the session after async_setup
setup_entry_result(a) ==
    IF a.need # "none" THEN a
    ELSE IF a.raised # "none"
    THEN [a EXCEPT !.raised = "none", !.setup_result = "False"]
    ELSE [a EXCEPT !.registered = TRUE, !.forwarded = TRUE, !.setup_result = "True"]

async_setup_entry(s, t) == setup_entry_result(async_setup(s, t))

\* __init__.py lines 36-40: the coordinator is taken out of hass.data, shut
\* down, and the platforms of the entry are unloaded
async_unload_entry(s) ==
    IF async_shutdown([s EXCEPT !.registered = FALSE]).need # "none"
    THEN async_shutdown([s EXCEPT !.registered = FALSE])
    ELSE [async_shutdown([s EXCEPT !.registered = FALSE]) EXCEPT !.forwarded = FALSE]

\* coordinator.py lines 50-84: the coordinator async_setup_entry constructs
\* (line 21), its tokens read from the data of the entry, everything else empty
new_coordinator(u) ==
    [u EXCEPT !.access_token = u.entry_data.access_token,
              !.refresh_token = u.entry_data.refresh_token,
              !.token_expires = u.entry_data.token_expires,
              !.cognito_identity_id = None,
              !.aws_creds = None,
              !.aws_creds_expire = 0,
              !.client_id = None,
              !.mqtt_connection = NoConnection,
              !.subscribed = {},
              !.favourites = <<>>]

\* __init__.py lines 43-45: the update listener reloads the entry, which the
\* host does by unloading it (lines 36-40) and setting it up anew (lines 18-33)
async_reload(s, t) ==
    IF async_unload_entry(s).need # "none" THEN async_unload_entry(s)
    ELSE async_setup_entry(new_coordinator(async_unload_entry(s)), t)

\* what async_update_entry (coordinator.py line 191) leaves of the event
\* loop's queue: the host starts the update listener registered at
\* __init__.py line 32 when the data of the entry has changed
update_listeners(queue, listening, before, after) ==
    IF listening /\ after # before
    THEN Append(queue, [fn |-> "_async_update_listener", arg |-> EmptyDict])
    ELSE queue

-----------------------------------------------------------------------------
(* Running a coroutine of the session as one step *)

\* the coordinator's fields as the coroutine finds them, and nothing done yet
Begin(script) ==
    [access_token        |-> access_token,
     refresh_token       |-> refresh_token,
     token_expires       |-> token_expires,
     entry_data          |-> entry_data,
     cognito_identity_id |-> cognito_identity_id,
     client_id           |-> client_id,
     aws_creds           |-> aws_creds,
     aws_creds_expire    |-> aws_creds_expire,
     mqtt_connection     |-> mqtt_connection,
     subscribed          |-> subscribed,
     connecting          |-> connecting,
     suspended           |-> FALSE,
     favourites          |-> favourites,
     registered          |-> registered,
     forwarded           |-> forwarded,
     setup_result        |-> setup_result,
     arg                 |-> None,
     script |-> script, need |-> "none", calls |-> <<>>, raised |-> "none", ret |-> FALSE]

\* the coroutine named handler, run on s at instant t
Run(handler, s, t) ==
    CASE handler = "_ensure_auth"           -> ensure_auth(s, t)
      [] handler = "_ensure_cognito_creds"  -> ensure_cognito_creds(s, t)
      [] handler = "_connect_mqtt"          -> connect_mqtt(s, t)
      [] handler = "async_shutdown"         -> async_shutdown(s)
      [] handler = "_subscribe_topics"      -> subscribe_topics(s)
      [] handler = "_fetch_favourites"      -> fetch_favourites(s, t)
      [] handler = "async_trigger_favourite" -> async_trigger_favourite(s, s.arg)
      [] handler = "async_shutdown_and_reconnect" -> async_shutdown_and_reconnect(s, t)
      [] handler = "async_stop_cooking"     -> async_stop_cooking(s)
      [] handler = "async_set_cavity_light" -> async_set_cavity_light(s)
      [] handler = "_async_update_data"     -> async_update_data(s, t)
      [] handler = "async_setup_entry"      -> async_setup_entry(s, t)
      [] handler = "_async_update_data.resume" -> update_resume(s)
      [] handler = "async_unload_entry"     -> async_unload_entry(s)
      [] handler = "_async_update_listener" -> async_reload(s, t)

\* every sequence of answers that carries the handler to its end: an answer is
\* chosen for a call only when the handler comes to make that call
RECURSIVE Scripts(_, _, _)
Scripts(cloud, handler, script) ==
    LET need == Run(handler, Begin(script), now).need IN
    IF need = "none" THEN {script}
    ELSE UNION { Scripts(cloud, handler, Append(script, r)) :
                   r \in Responses(cloud, need, now) }

\* the handler has run to its end: the fields it leaves, the calls it made, what it raised
Commit(handler, out) ==
    /\ access_token' = out.access_token
    /\ refresh_token' = out.refresh_token
    /\ token_expires' = out.token_expires
    /\ entry_data' = out.entry_data
    /\ cognito_identity_id' = out.cognito_identity_id
    /\ client_id' = out.client_id
    /\ aws_creds' = out.aws_creds
    /\ aws_creds_expire' = out.aws_creds_expire
    /\ mqtt_connection' = out.mqtt_connection
    /\ subscribed' = out.subscribed
    /\ connecting' = out.connecting
    /\ favourites' = out.favourites
    /\ registered' = out.registered
    /\ forwarded' = out.forwarded
    /\ setup_result' = out.setup_result
    /\ op' = handler
    /\ op_arg' = out.arg
    /\ calls' = out.calls
    /\ notified' = <<>>
    /\ raised' = out.raised

Handle(cloud, handler) ==
    \E script \in Scripts(cloud, handler, <<>>) :
        Commit(handler, Run(handler, Begin(script), now))

\* the same for a coroutine called with an argument
BeginWith(script, a) == [Begin(script) EXCEPT !.arg = a]

RECURSIVE ScriptsWith(_, _, _, _)
ScriptsWith(cloud, handler, a, script) ==
    LET need == Run(handler, BeginWith(script, a), now).need IN
    IF need = "none" THEN {script}
    ELSE UNION { ScriptsWith(cloud, handler, a, Append(script, r)) :
                   r \in Responses(cloud, need, now) }

HandleWith(cloud, handler, a) ==
    \E script \in ScriptsWith(cloud, handler, a, <<>>) :
        Commit(handler, Run(handler, BeginWith(script, a), now))

\* the credential chain, against a cloud that may answer anything
EnsureAuth ==
    /\ Handle("any", "_ensure_auth")
    /\ UNCHANGED <<syncVars, heldVars, now>>

EnsureCognitoCreds ==
    /\ Handle("any", "_ensure_cognito_creds")
    /\ UNCHANGED <<syncVars, heldVars, now>>

\* the handlers of the whole session
\* _connect_mqtt runs in async_setup and after async_shutdown, with no connection
ConnectMqtt ==
    /\ IsNone(mqtt_connection)
    /\ Handle("plain", "_connect_mqtt")
    /\ UNCHANGED <<syncVars, heldVars, now>>

\* the same against a cloud that is up
ConnectMqttUp ==
    /\ IsNone(mqtt_connection)
    /\ Handle("up", "_connect_mqtt")
    /\ UNCHANGED <<syncVars, heldVars, now>>

AsyncShutdown ==
    /\ Handle("plain", "async_shutdown")
    /\ UNCHANGED <<syncVars, heldVars, now>>

AsyncStopCooking ==
    /\ Handle("plain", "async_stop_cooking")
    /\ UNCHANGED <<syncVars, heldVars, now>>

AsyncSetCavityLight ==
    /\ Handle("plain", "async_set_cavity_light")
    /\ UNCHANGED <<syncVars, heldVars, now>>

\* async_shutdown_and_reconnect, called by the periodic update
AsyncShutdownAndReconnect ==
    /\ Handle("plain", "async_shutdown_and_reconnect")
    /\ UNCHANGED <<syncVars, heldVars, now>>

\* the connection resumes: the library calls _on_mqtt_resumed on its worker thread
OnMqttResumed ==
    \E session_present \in BOOLEAN :
        /\ ~IsNone(mqtt_connection)
        /\ Len(loop_queue) < MaxQueue
        /\ loop_queue' = on_mqtt_resumed(loop_queue, session_present)
        /\ op' = "_on_mqtt_resumed"
        /\ op_arg' = (IF session_present THEN "True" ELSE "False")
        /\ calls' = <<>>
        /\ notified' = <<>>
        /\ raised' = "none"
        /\ UNCHANGED <<state, data, merged, last_write, credVars, connVars, favVars,
                       hostVars, heldVars, now>>

\* the event loop runs the oldest callback, a resubscription
SubscribeTopics ==
    /\ loop_queue # <<>>
    /\ Head(loop_queue).fn = "_subscribe_topics"
    /\ Handle("plain", "_subscribe_topics")
    /\ loop_queue' = Tail(loop_queue)
    /\ UNCHANGED <<state, data, merged, last_write, heldVars, now>>

\* the favourites are fetched: async_setup, async_refresh_favourites
FetchFavourites ==
    /\ Handle("plain", "_fetch_favourites")
    /\ UNCHANGED <<syncVars, heldVars, now>>

\* a favourite is triggered by its id
AsyncTriggerFavourite ==
    \E fav_id \in FavIds :
        /\ HandleWith("plain", "async_trigger_favourite", fav_id)
        /\ UNCHANGED <<syncVars, heldVars, now>>

\* the model follows one observer and the first value it is handed
ObserverWaits == held.via = "none"

\* the periodic health check, against a cloud that is up but for the poll it
\* publishes; the caller is handed self._state itself (line 506)
AsyncUpdateData ==
    /\ ObserverWaits
    /\ Handle("up", "_async_update_data")
    /\ held' = LiveReference("_async_update_data", state)
    /\ UNCHANGED <<syncVars, now>>

\* the host sets the entry up, once, on the coordinator it has just
\* constructed: no identity, no temporary credentials, no connection yet
AsyncSetupEntry ==
    /\ setup_result = None
    /\ cognito_identity_id = None
    /\ aws_creds = None
    /\ IsNone(mqtt_connection)
    /\ Handle("plain", "async_setup_entry")
    /\ UNCHANGED <<syncVars, heldVars, now>>

\* the periodic health check against a cloud any call to which may fail
AsyncUpdateDataPlain ==
    /\ Handle("plain", "_async_update_data")
    /\ UNCHANGED <<syncVars, heldVars, now>>

\* the periodic health check of a loaded entry, whose connect the worker may
\* not have answered yet when the event loop runs the next coroutine
AsyncUpdateDataSlow ==
    /\ registered
    /\ IsNone(connecting)
    /\ Handle("slow", "_async_update_data")
    /\ UNCHANGED <<syncVars, heldVars, now>>

\* the worker answers the connect and the suspended health check goes on
AsyncUpdateDataResumes ==
    /\ ~IsNone(connecting)
    /\ Handle("plain", "_async_update_data.resume")
    /\ UNCHANGED <<syncVars, heldVars, now>>

\* the host unloads the entry it has set up
AsyncUnloadEntry ==
    /\ registered
    /\ Handle("plain", "async_unload_entry")
    /\ UNCHANGED <<syncVars, heldVars, now>>

\* the periodic health check of a loaded entry, on a host that starts the
\* update listeners of the entry when the tokens persisted differ from its data
AsyncUpdateDataListened ==
    /\ registered
    /\ Len(loop_queue) < MaxQueue
    /\ \E script \in Scripts("up", "_async_update_data", <<>>) :
          /\ Commit("_async_update_data", Run("_async_update_data", Begin(script), now))
          /\ loop_queue' =
                 update_listeners(loop_queue, registered, entry_data,
                                  Run("_async_update_data", Begin(script), now).entry_data)
    /\ UNCHANGED <<state, data, merged, last_write, heldVars, now>>

\* the event loop runs the update listener: the entry is reloaded.  The
\* coordinator the new setup constructs starts from an empty snapshot (line
\* 83); merges still queued are bound to the old coordinator and end with it
AsyncUpdateListener ==
    /\ loop_queue # <<>>
    /\ Head(loop_queue).fn = "_async_update_listener"
    /\ Handle("up", "_async_update_listener")
    /\ state' = EmptyDict
    /\ data' = EmptyDict
    /\ merged' = <<>>
    /\ last_write' = EmptyDict
    /\ loop_queue' = SelectSeq(Tail(loop_queue), LAMBDA c : c.fn # "_apply_state_update")
    /\ UNCHANGED <<heldVars, now>>

\* an observer reads the state property: self._state itself (lines 92-94)
ObserverReadsState ==
    /\ ObserverWaits
    /\ held' = LiveReference("state", state)
    /\ op' = "state"
    /\ op_arg' = None
    /\ calls' = <<>>
    /\ notified' = <<>>
    /\ raised' = "none"
    /\ UNCHANGED <<syncVars, credVars, connVars, favVars, hostVars, now>>

\* an observer is called with the change notification and keeps what it
\* carries: dict(self._state), a dict of its own (line 354)
ObserverTakesNotification ==
    /\ ObserverWaits
    /\ notified # <<>>
    /\ held' = Copy("notification", notified[1])
    /\ op' = "listener"
    /\ op_arg' = None
    /\ calls' = <<>>
    /\ notified' = <<>>
    /\ raised' = "none"
    /\ UNCHANGED <<syncVars, credVars, connVars, favVars, hostVars, now>>

\* what an observer writes into the value it holds: one top-level entry
ObserverMark == [observer |-> Leaf("w")]

\* an observer writes into the value it holds, once; when that value is
\* self._state itself, the write is a write to the session's snapshot
ObserverWrites ==
    /\ ~ObserverWaits
    /\ "observer" \notin DOMAIN held.value
    /\ held' = [held EXCEPT !.value = DictUpdate(@, ObserverMark)]
    /\ state' = IF held.alias THEN DictUpdate(state, ObserverMark) ELSE state
    /\ op' = "observer_write"
    /\ op_arg' = None
    /\ calls' = <<>>
    /\ notified' = <<>>
    /\ raised' = "none"
    /\ UNCHANGED <<data, loop_queue, merged, last_write, credVars, connVars, favVars,
                   hostVars, now>>

\* time passes between two handlers
Tick ==
    /\ now < MaxTicks * TickSeconds
    /\ now' = now + TickSeconds
    /\ op' = "tick"
    /\ op_arg' = None
    /\ calls' = <<>>
    /\ notified' = <<>>
    /\ raised' = "none"
    /\ UNCHANGED <<syncVars, credVars, connVars, favVars, hostVars, heldVars>>

-----------------------------------------------------------------------------
(* Initial state: WhirlpoolOvenCoordinator.__init__ on the entry the config *)
(* flow stored                                                              *)

InitialEntries ==
    { [access_token |-> "a0", refresh_token |-> "r0", token_expires |-> e] :
        e \in {0, 3 * REFRESH_BUFFER} }

Init ==
    /\ entry_data \in InitialEntries
    /\ access_token = entry_data.access_token
    /\ refresh_token = entry_data.refresh_token
    /\ token_expires = entry_data.token_expires
    /\ cognito_identity_id = None
    /\ aws_creds = None
    /\ aws_creds_expire = 0
    /\ client_id = None
    /\ mqtt_connection = NoConnection
    /\ subscribed = {}
    /\ connecting = NoConnection
    /\ favourites = <<>>
    /\ registered = FALSE
    /\ forwarded = FALSE
    /\ setup_result = None
    /\ held = NothingHeld
    /\ state = EmptyDict
    /\ data = EmptyDict
    /\ loop_queue = <<>>
    /\ merged = <<>>
    /\ last_write = EmptyDict
    /\ now = 0
    /\ op = "__init__"
    /\ op_arg = None
    /\ calls = <<>>
    /\ notified = <<>>
    /\ raised = "none"

\* the state synchronizer, on a session that connects
NextSync == ConnectMqttUp \/ OnMqttMessage \/ ApplyStateUpdate
SpecSync == Init /\ [][NextSync]_vars

\* the credential chain alone
NextAuth == Tick \/ EnsureAuth \/ EnsureCognitoCreds
SpecAuth == Init /\ [][NextAuth]_vars

\* the favourites, on a session that connects
NextFav == ConnectMqtt \/ FetchFavourites \/ AsyncTriggerFavourite
SpecFav == Init /\ [][NextFav]_vars

\* the snapshot and the values its observers hold
NextObs ==
    \/ ConnectMqttUp
    \/ OnMqttMessage
    \/ ApplyStateUpdate
    \/ AsyncUpdateData
    \/ ObserverReadsState
    \/ ObserverTakesNotification
    \/ ObserverWrites
SpecObs == Init /\ [][NextObs]_vars

\* the worker thread's callbacks and the event loop, on a session that connects
NextLoop ==
    \/ ConnectMqttUp
    \/ OnMqttMessage
    \/ ApplyStateUpdate
    \/ OnMqttResumed
    \/ SubscribeTopics
SpecLoop == Init /\ [][NextLoop]_vars

\* the entry is set up
NextSetup == Tick \/ AsyncSetupEntry
SpecSetup == Init /\ [][NextSetup]_vars

\* setup and the periodic health check, as time passes
NextHealth == Tick \/ AsyncSetupEntry \/ AsyncUpdateDataPlain
SpecHealth == Init /\ [][NextHealth]_vars

\* setup, health checks suspended at their connect, and unloading
NextUnload ==
    \/ Tick
    \/ AsyncSetupEntry
    \/ AsyncUpdateDataSlow
    \/ AsyncUpdateDataResumes
    \/ AsyncUnloadEntry
SpecUnload == Init /\ [][NextUnload]_vars

\* a running session whose health checks persist refreshed tokens, on a host
\* that runs the update listeners of the entry
NextReload ==
    \/ Tick
    \/ AsyncSetupEntry
    \/ AsyncUpdateDataListened
    \/ AsyncUpdateListener
SpecReload == Init /\ [][NextReload]_vars

\* the snapshot across shutdown and reconnection
NextFrame == ConnectMqttUp \/ OnMqttMessage \/ ApplyStateUpdate \/ AsyncShutdown
SpecFrame == Init /\ [][NextFrame]_vars

\* the session: connection and commands
Next ==
    \/ Tick
    \/ ConnectMqtt
    \/ AsyncShutdown
    \/ AsyncShutdownAndReconnect
    \/ OnMqttResumed
    \/ SubscribeTopics
    \/ AsyncStopCooking
    \/ AsyncSetCavityLight
Spec == Init /\ [][Next]_vars

-----------------------------------------------------------------------------
(* Properties.  A step of handler h is a step that leaves op = h: every     *)
(* handler sets op to its own name, and Tick sets it to "tick".             *)

Ran(handler) == op' = handler

\* the endpoints called, in order
Endpoints(log) == [i \in DOMAIN log |-> log[i].endpoint]

\* how many calls of log went to endpoint
Count(log, endpoint) == Cardinality({ i \in DOMAIN log : log[i].endpoint = endpoint })

\* how many token calls of log used grant
Grants(log, grant) ==
    Cardinality({ i \in DOMAIN log : log[i].endpoint = "oauth_token" /\ log[i].arg = grant })

\* the freshness the claims speak of: present, and now < expiry - 300
FreshToken == Truthy(access_token) /\ now < token_expires - 300
FreshCredentials == aws_creds # None /\ now < aws_creds_expire - 300

\* the frames of the scenario of section 8
ScenarioStateFrame ==
    Bytes("json", [primaryCavity |-> [cavityState |-> Leaf("preheating")]])
ScenarioResponseFrame ==
    Bytes("json", [requestId |-> Leaf("r1"),
                   payload |-> [primaryCavity |-> [ovenDisplayTemperature |-> Leaf("180")]]])

\* C1: once the state-topic frame with cavityState = "preheating" and then the
\* response-topic frame with ovenDisplayTemperature = 180 are merged, the
\* snapshot has both fields of primaryCavity; and every merge leaves in place
\* the fields of a sub-mapping that the merged frame does not carry.
C1_PartialFrameKeepsOtherFields ==
    [][Ran("_apply_state_update") =>
        /\ (merged' = << on_mqtt_message(TOPIC_STATE_UPDATE, ScenarioStateFrame).state_data,
                         on_mqtt_message(TOPIC_CMD_RESPONSE(client_id),
                                         ScenarioResponseFrame).state_data >>
            => /\ "primaryCavity" \in DOMAIN state'
               /\ CavityFields \subseteq DOMAIN state'.primaryCavity
               /\ state'.primaryCavity.cavityState = Leaf("preheating")
               /\ state'.primaryCavity.ovenDisplayTemperature = Leaf("180"))
        /\ \A k \in DOMAIN state \cap DOMAIN Head(loop_queue).arg :
             IsDict(state[k]) /\ IsDict(Head(loop_queue).arg[k])
             => \A f \in DOMAIN state[k] \ DOMAIN Head(loop_queue).arg[k] :
                  f \in DOMAIN state'[k] /\ state'[k][f] = state[k][f]
    ]_vars

\* C2: for every field, of the snapshot or of one of its sub-mappings, the
\* snapshot holds the value of the most recently merged update that had the field.
C2_LastUpdateWinsPerField ==
    \A k \in DOMAIN last_write :
        /\ k \in DOMAIN state
        /\ IF IsDict(last_write[k])
           THEN /\ IsDict(state[k])
                /\ \A f \in DOMAIN last_write[k] :
                     f \in DOMAIN state[k] /\ state[k][f] = last_write[k][f]
           ELSE state[k] = last_write[k]

\* C3: a command sent while there is no connection handle fails with the
\* channel-unavailable error and makes no network call.
C3_SendWithoutConnectionFails ==
    [][(Ran("async_stop_cooking") \/ Ran("async_set_cavity_light"))
       /\ IsNone(mqtt_connection)
       => raised' = "ChannelUnavailableError" /\ calls' = <<>>]_vars

\* C4: ensuring a tier whose credential is present and more than 300 s from
\* its expiry makes no network call.
C4_FreshTierNoCall ==
    [][/\ Ran("_ensure_auth") /\ FreshToken => calls' = <<>>
       /\ Ran("_ensure_cognito_creds") /\ FreshCredentials => calls' = <<>>]_vars

C4_Witness ==
    /\ op = "_ensure_cognito_creds"
    /\ calls = <<>>
    /\ raised = "none"
    /\ FreshCredentials

\* C5 as stated: refreshing a stale tier makes exactly one call for that tier,
\* whether the call succeeds or fails.
C5_StaleTierExactlyOneCall ==
    [][/\ Ran("_ensure_auth") /\ ~FreshToken => Count(calls', "oauth_token") = 1
       /\ Ran("_ensure_cognito_creds") /\ ~FreshCredentials /\ FreshToken
          => /\ Count(calls', "cognito_identityid") = 1
             /\ Count(calls', "GetCredentialsForIdentity") = 1]_vars

\* C5 as amended: refreshing a stale tier sends each exchange it comes to once.
\* A stale OAuth tier sends the refresh-token grant when a refresh token is
\* stored and the password grant when none is stored or that grant failed: one
\* token call, or two when the refresh-token grant failed.  A stale Cognito
\* tier over a fresh OAuth tier sends one identity-federation call, and one
\* credential-exchange call exactly when the identity call was answered in full.
C5_StaleTierOneCallPerExchange ==
    [][/\ Ran("_ensure_auth") /\ ~FreshToken
          => /\ Grants(calls', "refresh_token") = (IF Truthy(refresh_token) THEN 1 ELSE 0)
             /\ Grants(calls', "password") =
                  (IF Truthy(refresh_token) /\ calls'[1].ok THEN 0 ELSE 1)
             /\ Len(calls') = Grants(calls', "refresh_token") + Grants(calls', "password")
       /\ Ran("_ensure_cognito_creds") /\ ~FreshCredentials /\ FreshToken
          => /\ Count(calls', "cognito_identityid") = 1
             /\ Count(calls', "GetCredentialsForIdentity") =
                  (IF calls'[1].ok /\ raised' # "KeyError" THEN 1 ELSE 0)
             /\ Len(calls') = 1 + Count(calls', "GetCredentialsForIdentity")]_vars

C5_Witness ==
    /\ op = "_ensure_auth"
    /\ Len(calls) = 2
    /\ calls[1].arg = "refresh_token" /\ ~calls[1].ok
    /\ calls[2].arg = "password" /\ calls[2].ok
    /\ raised = "none"

\* C6 as stated: with the OAuth credential valid and the temporary credentials
\* expired, one ensure makes exactly one identity-federation call, then exactly
\* one credential-exchange call, and no token call.
C6_ExpiredCredentialsTwoCalls ==
    [][Ran("_ensure_cognito_creds") /\ FreshToken /\ ~FreshCredentials
       => Endpoints(calls') = <<"cognito_identityid", "GetCredentialsForIdentity">>]_vars

\* C6 as amended: with the OAuth credential valid and the temporary credentials
\* expired, one ensure makes no token call and exactly one identity-federation
\* call, followed by exactly one credential-exchange call when the identity
\* call is answered in full (success, with identityId and token) and by no
\* call when it is not.
C6_ExpiredCredentialsIdentityThenExchange ==
    [][Ran("_ensure_cognito_creds") /\ FreshToken /\ ~FreshCredentials
       => IF calls'[1].ok /\ raised' # "KeyError"
          THEN Endpoints(calls') = <<"cognito_identityid", "GetCredentialsForIdentity">>
          ELSE Endpoints(calls') = <<"cognito_identityid">>]_vars

C6_Witness ==
    /\ op = "_ensure_cognito_creds"
    /\ Endpoints(calls) = <<"cognito_identityid", "GetCredentialsForIdentity">>
    /\ calls[1].arg = access_token
    /\ raised = "none"
    /\ FreshToken

\* the handlers that ensure the credential chain
Ensures == {"_ensure_auth", "_ensure_cognito_creds"}

\* the persisted and in-memory credentials are left as they are
CredentialsUnchanged == credVars' = credVars

\* C7 as stated: after an ensure that succeeded, a second ensure at the same
\* instant makes no network call and leaves every stored credential unchanged,
\* whatever expiry the cloud returned.
C7_EnsureIdempotent ==
    [][raised = "none" /\ op \in Ensures /\ Ran(op) /\ now' = now
       => calls' = <<>> /\ CredentialsUnchanged]_vars

\* C7 as amended: after an ensure that succeeded and left the tier it ensures
\* with a non-empty credential whose expiry is more than 300 s after that
\* instant, a second ensure at the same instant makes no network call and
\* leaves every stored credential unchanged.
C7_EnsureIdempotentBeyondBuffer ==
    [][/\ op = "_ensure_auth" /\ raised = "none" /\ Ran(op) /\ now' = now
          /\ Truthy(access_token) /\ token_expires > now + 300
          => calls' = <<>> /\ CredentialsUnchanged
       /\ op = "_ensure_cognito_creds" /\ raised = "none" /\ Ran(op) /\ now' = now
          /\ aws_creds_expire > now + 300
          => calls' = <<>> /\ CredentialsUnchanged]_vars

C7_Witness ==
    /\ op = "_ensure_cognito_creds"
    /\ raised = "none"
    /\ Len(calls) = 3
    /\ calls[1].endpoint = "oauth_token"
    /\ aws_creds_expire > now + 300
    /\ token_expires > now + 300

\* C8: ensuring a stale OAuth tier that has a refresh token sends the
\* refresh-token grant first; the password grant is sent only after the
\* refresh-token grant has failed; and the authentication error is raised only
\* when both grants were sent and both failed.
C8_RefreshGrantBeforePassword ==
    [][Ran("_ensure_auth") /\ ~FreshToken /\ Truthy(refresh_token)
       => /\ Len(calls') >= 1
          /\ calls'[1].endpoint = "oauth_token" /\ calls'[1].arg = "refresh_token"
          /\ \A i \in DOMAIN calls' :
               calls'[i].arg = "password" => i = 2 /\ ~calls'[1].ok
          /\ raised' = "AuthenticationError"
             => /\ Len(calls') = 2
                /\ calls'[2].endpoint = "oauth_token" /\ calls'[2].arg = "password"
                /\ ~calls'[1].ok /\ ~calls'[2].ok
          /\ Len(calls') = 2 /\ ~calls'[2].ok => raised' = "AuthenticationError"]_vars

C8_Witness ==
    /\ op = "_ensure_auth"
    /\ Len(calls) = 2
    /\ calls[1].arg = "refresh_token" /\ ~calls[1].ok
    /\ calls[2].arg = "password" /\ ~calls[2].ok
    /\ raised = "AuthenticationError"

\* C9: whenever no OAuth exchange is in progress, the persisted token triple
\* equals the in-memory token triple.
C9_PersistedTokensEqualMemory ==
    entry_data = [access_token |-> access_token,
                  refresh_token |-> refresh_token,
                  token_expires |-> token_expires]

\* C10: an ensure of the credential chain ends without an error, or with the
\* authentication error when the failure is at the OAuth tier, or with the
\* credential-exchange error when it is at the identity-federation or
\* credential-exchange step; no other error escapes.
C10_ChainFailuresAreTyped ==
    [][(\E h \in Ensures : Ran(h))
       => /\ raised' \in {"none", "AuthenticationError", "CredentialExchangeError"}
          /\ raised' = "AuthenticationError"
             => calls' # <<>> /\ calls'[Len(calls')].endpoint = "oauth_token"
          /\ raised' = "CredentialExchangeError"
             => /\ calls' # <<>>
                /\ calls'[Len(calls')].endpoint
                     \in {"cognito_identityid", "GetCredentialsForIdentity"}]_vars

\* the topics of the calls, in order
Topics(log) == [i \in DOMAIN log |-> log[i].topic]

\* every call of the log was answered with success
AllOk(log) == \A i \in DOMAIN log : log[i].ok

\* C11 as stated: a resumed callback with session_present = false leads to the
\* state-update topic and the command-response topic each being subscribed
\* again exactly once on the live connection; one with session_present = true
\* leads to no subscribe call.
C11_ResumedResubscribesBothOnce ==
    [][/\ Ran("_on_mqtt_resumed")
          => /\ calls' = <<>>
             /\ loop_queue' = (IF op_arg' = "False"
                               THEN Append(loop_queue, ResubscribeCallback)
                               ELSE loop_queue)
       /\ Ran("_subscribe_topics")
          => /\ ~IsNone(mqtt_connection)
             /\ Endpoints(calls') = <<"mqtt_subscribe", "mqtt_subscribe">>
             /\ Topics(calls') = <<TOPIC_STATE_UPDATE, TOPIC_CMD_RESPONSE(client_id)>>]_vars

\* C11 as amended: a resumed callback with session_present = false hands
\* exactly one resubscription to the event loop and one with session_present =
\* true hands none; neither makes a subscribe call itself.  The resubscription,
\* when the event loop runs it, makes one subscribe call for the state-update
\* topic and, when that call is acknowledged, one for the command-response
\* topic, on the connection the session holds by then; it makes no call when
\* the session holds no connection by then.
C11_ResumedResubscribesInOrder ==
    [][/\ Ran("_on_mqtt_resumed")
          => /\ calls' = <<>>
             /\ subscribed' = subscribed
             /\ loop_queue' = (IF op_arg' = "False"
                               THEN Append(loop_queue, ResubscribeCallback)
                               ELSE loop_queue)
       /\ Ran("_subscribe_topics")
          => /\ loop_queue' = Tail(loop_queue)
             /\ IF IsNone(mqtt_connection) THEN calls' = <<>>
                ELSE /\ Endpoints(calls') \in {<<"mqtt_subscribe">>,
                                               <<"mqtt_subscribe", "mqtt_subscribe">>}
                     /\ calls'[1].topic = TOPIC_STATE_UPDATE
                     /\ Len(calls') = 2 <=> calls'[1].ok
                     /\ Len(calls') = 2 => calls'[2].topic = TOPIC_CMD_RESPONSE(client_id)]_vars

C11_Witness ==
    /\ op = "_subscribe_topics"
    /\ Topics(calls) = <<TOPIC_STATE_UPDATE, TOPIC_CMD_RESPONSE(client_id)>>
    /\ AllOk(calls)
    /\ subscribed = {TOPIC_STATE_UPDATE, TOPIC_CMD_RESPONSE(mqtt_connection.client_id)}

\* C12: when async_shutdown returns the session holds no connection handle,
\* whether the disconnect succeeded, raised or timed out, and nothing is raised;
\* a connect that follows and goes through opens a new connection.
C12_ShutdownClearsHandle ==
    [][/\ Ran("async_shutdown") => IsNone(mqtt_connection') /\ raised' = "none"
       /\ Ran("async_shutdown_and_reconnect") /\ calls' # <<>>
          /\ calls'[1].endpoint = "mqtt_disconnect" /\ AllOk(Tail(calls')) /\ raised' = "none"
          => ~IsNone(mqtt_connection')
       /\ op = "async_shutdown" /\ Ran("_connect_mqtt") /\ raised' = "none"
          => ~IsNone(mqtt_connection')]_vars

C12_Witness ==
    /\ op = "async_shutdown_and_reconnect"
    /\ calls # <<>>
    /\ calls[1].endpoint = "mqtt_disconnect" /\ ~calls[1].ok
    /\ raised = "none"
    /\ ~IsNone(mqtt_connection)

\* C13: a connect made after a disconnect opens the connection under the
\* client identifier derived from the federated identity the session holds
\* then; the command-response topic it subscribes to, and the command-request
\* topic of the publishes made later on that connection, carry the same
\* client identifier.
C13_ClientIdFollowsIdentity ==
    [][/\ (Ran("_connect_mqtt") \/ Ran("async_shutdown_and_reconnect"))
          /\ ~IsNone(mqtt_connection')
          => /\ cognito_identity_id' # None
             /\ mqtt_connection'.client_id = ClientIdOf(cognito_identity_id')
             /\ \A i \in DOMAIN calls' :
                  /\ calls'[i].endpoint = "mqtt_connect"
                     => calls'[i].arg = mqtt_connection'.client_id
                  /\ calls'[i].endpoint = "mqtt_subscribe"
                     => calls'[i].topic \in
                          {TOPIC_STATE_UPDATE, TOPIC_CMD_RESPONSE(mqtt_connection'.client_id)}
             /\ subscribed' \subseteq
                  {TOPIC_STATE_UPDATE, TOPIC_CMD_RESPONSE(mqtt_connection'.client_id)}
       /\ (Ran("async_stop_cooking") \/ Ran("async_set_cavity_light"))
          => \A i \in DOMAIN calls' :
               /\ calls'[i].endpoint = "mqtt_publish"
               /\ calls'[i].topic = TOPIC_CMD_REQUEST(mqtt_connection.client_id)]_vars

C13_Witness ==
    /\ op = "async_shutdown_and_reconnect"
    /\ Len(calls) = 6
    /\ calls[1].endpoint = "mqtt_disconnect"
    /\ calls[1].arg # calls[4].arg
    /\ calls[4].endpoint = "mqtt_connect"
    /\ calls[4].arg = ClientIdOf(cognito_identity_id)
    /\ TOPIC_CMD_RESPONSE(calls[4].arg) \in subscribed

\* the stored favourite a trigger with this id works on; defined when there is one
Triggered(fav_id) == favourites[FindFavourite(favourites, fav_id)]

\* C14: triggering a stored favourite whose cycle path is absent or ends in an
\* empty list fails with the incomplete-favourite error and publishes nothing.
C14_IncompleteFavouriteFails ==
    [][Ran("async_trigger_favourite") /\ FindFavourite(favourites, op_arg') # 0
       /\ CyclesOf(Triggered(op_arg')) = <<>>
       => raised' = "IncompleteFavouriteError" /\ calls' = <<>>]_vars

\* C15: a favourites refresh raises nothing to its caller; one that failed
\* (status, network, unusable body) leaves the stored list as it was, and one
\* that succeeded replaces it with the flattened list of the cycles fetched.
C15_FailedRefreshKeepsFavourites ==
    [][Ran("_fetch_favourites")
       => /\ raised' = "none"
          /\ IF calls' # <<>> /\ calls'[Len(calls')].endpoint = "favorites"
                /\ calls'[Len(calls')].ok
             THEN \/ favourites' = favourites
                  \/ \E b \in FavouriteBodies :
                       /\ IsDict(b)
                       /\ favourites' = flatten_favourites(Get(b, "favoritesList", <<>>), 1)
             ELSE favourites' = favourites]_vars

\* C16: for a stored favourite with a non-empty cycle list, on a session that
\* holds a connection, the trigger publishes one run command that carries
\* recipeId, targetTemperature, preheat and cookTimer exactly for those of
\* CycleName, CavityTargetTemp (when numeric), PreheatType and CookTimeSetTime
\* that the first cycle has, with their values, and leaves out the others.
C16_RunCommandCarriesPresentFields ==
    [][Ran("async_trigger_favourite") /\ FindFavourite(favourites, op_arg') # 0
       /\ CyclesOf(Triggered(op_arg')) # <<>>
       /\ ~IsNone(mqtt_connection)
       => /\ Endpoints(calls') = <<"mqtt_publish">>
          /\ calls'[1].arg.command = CMD_RUN
          /\ "recipeId" \in DOMAIN calls'[1].arg
               <=> "CycleName" \in DOMAIN CyclesOf(Triggered(op_arg'))[1]
          /\ "recipeId" \in DOMAIN calls'[1].arg
               => calls'[1].arg.recipeId = CyclesOf(Triggered(op_arg'))[1].CycleName
          /\ "targetTemperature" \in DOMAIN calls'[1].arg
               <=> /\ "CavityTargetTemp" \in DOMAIN CyclesOf(Triggered(op_arg'))[1]
                   /\ IsNumeric(CyclesOf(Triggered(op_arg'))[1].CavityTargetTemp)
          /\ "targetTemperature" \in DOMAIN calls'[1].arg
               => calls'[1].arg.targetTemperature
                    = ToFloat(CyclesOf(Triggered(op_arg'))[1].CavityTargetTemp)
          /\ "preheat" \in DOMAIN calls'[1].arg
               <=> "PreheatType" \in DOMAIN CyclesOf(Triggered(op_arg'))[1]
          /\ "preheat" \in DOMAIN calls'[1].arg
               => calls'[1].arg.preheat = CyclesOf(Triggered(op_arg'))[1].PreheatType
          /\ "cookTimer" \in DOMAIN calls'[1].arg
               <=> "CookTimeSetTime" \in DOMAIN CyclesOf(Triggered(op_arg'))[1]
          /\ "cookTimer" \in DOMAIN calls'[1].arg
               => calls'[1].arg.cookTimer
                    = [command |-> CMD_RUN,
                       time |-> ToFloat(CyclesOf(Triggered(op_arg'))[1].CookTimeSetTime)]]_vars

\* C17: on either topic, a payload that cannot be decoded or that decodes to
\* something other than a mapping is dropped by the message callback: nothing
\* is raised, nothing is handed to the event loop, the snapshot and what the
\* observers were last given stay as they were and no observer is notified.
C17_NoisePayloadDropped ==
    [][Ran("_on_mqtt_message") /\ op_arg' \in {"not_utf8", "not_json", "not_mapping"}
       => /\ raised' = "none"
          /\ notified' = <<>>
          /\ UNCHANGED <<state, data, loop_queue>>]_vars

\* C18: every merge of an inbound frame comes with exactly one change
\* notification, given in the same turn of the event loop and so before any
\* other merge, whose content is the whole snapshot after that merge; no other
\* step changes the snapshot or notifies.
C18_MergeNotifiesFullSnapshot ==
    [][/\ Ran("_apply_state_update") => notified' = <<state'>> /\ data' = state'
       /\ ~Ran("_apply_state_update") => notified' = <<>> /\ state' = state]_vars

\* a merge of a frame that holds only part of the snapshot has been notified
C18_Witness ==
    /\ op = "_apply_state_update"
    /\ notified = <<state>>
    /\ merged # <<>>
    /\ DOMAIN merged[Len(merged)] # DOMAIN state

\* C19: a snapshot value handed to an observer (by the state property, by a
\* change notification, by the return of the periodic health check) is a copy:
\* a later merge leaves the value the observer holds as it was, and a write of
\* the observer into its value leaves the session's snapshot as it was.
C19_ObserversHoldCopies ==
    [][/\ Ran("_apply_state_update") /\ held.via # "none" => held'.value = held.value
       /\ Ran("observer_write") => state' = state]_vars

\* the step leaves the event loop's queue as it was or adds one entry at its end
HandsOffAtMostOne ==
    \/ loop_queue' = loop_queue
    \/ /\ Len(loop_queue') = Len(loop_queue) + 1
       /\ SubSeq(loop_queue', 1, Len(loop_queue)) = loop_queue

\* C20: the callbacks of the connection's worker thread (inbound message,
\* connection resumed) change neither the snapshot nor what observers were
\* given nor the subscriptions, and make no call: all they do is add one entry
\* to the event loop's queue.  The snapshot changes only in a step of the event
\* loop that takes the oldest queued merge and applies all of it, so no two
\* merges interleave; a subscribe is sent only by a coroutine of the event loop.
C20_CallbacksOnlyHandOff ==
    [][/\ Ran("_on_mqtt_message") \/ Ran("_on_mqtt_resumed")
          => /\ state' = state
             /\ data' = data
             /\ subscribed' = subscribed
             /\ calls' = <<>>
             /\ notified' = <<>>
             /\ HandsOffAtMostOne
       /\ state' # state
          => /\ Ran("_apply_state_update")
             /\ loop_queue # <<>>
             /\ Head(loop_queue).fn = "_apply_state_update"
             /\ loop_queue' = Tail(loop_queue)
             /\ state' = apply_state_update(state, Head(loop_queue).arg)
       /\ Count(calls', "mqtt_subscribe") > 0
          => Ran("_subscribe_topics") \/ Ran("_connect_mqtt")]_vars

\* both callbacks have handed off: a resubscription and a merge wait in the
\* queue, and the snapshot does not yet show the frame that waits
C20_Witness ==
    /\ op = "_on_mqtt_message"
    /\ Len(loop_queue) = 2
    /\ loop_queue[1].fn = "_subscribe_topics"
    /\ loop_queue[2].fn = "_apply_state_update"
    /\ DOMAIN loop_queue[2].arg # {}
    /\ state = EmptyDict

\* the session as a handler finds it, before the step
Before == Begin(<<>>)

\* what the health check finds: temporary credentials stale, or no handle
NeedsReconnect == ~is_cognito_valid(Before, now) \/ IsNone(mqtt_connection)

\* the token calls of log ended well: every failed one is followed by a good one
OAuthSucceeded(log) ==
    \A i \in DOMAIN log :
        log[i].endpoint = "oauth_token" /\ ~log[i].ok
        => \E j \in DOMAIN log : j > i /\ log[j].endpoint = "oauth_token" /\ log[j].ok

\* the calls of a health check no step of which fails, part by part
RefreshCalls == IF is_token_valid(Before, now) THEN <<>> ELSE <<"oauth_token">>
TeardownCalls == IF IsNone(mqtt_connection) THEN <<>> ELSE <<"mqtt_disconnect">>
DeriveCalls ==
    IF is_cognito_valid(Before, now) THEN <<>>
    ELSE <<"cognito_identityid", "GetCredentialsForIdentity">>
ReopenCalls == <<"mqtt_connect", "mqtt_subscribe", "mqtt_subscribe">>

BothTopics(client) == {TOPIC_STATE_UPDATE, TOPIC_CMD_RESPONSE(client)}

C23_FailedSetupNotRegistered ==
    [][Ran("async_setup_entry")
       => /\ raised' = "none"
          /\ Count(calls', "mqtt_connect") = 0
             => setup_result' = "False" /\ ~registered' /\ ~forwarded'
          /\ registered' <=> setup_result' = "True"
          /\ forwarded' <=> setup_result' = "True"]_vars

\* a setup failed at the credential exchange, after the identity tier went through
C23_Witness ==
    /\ op = "async_setup_entry"
    /\ setup_result = "False"
    /\ ~registered
    /\ ~forwarded
    /\ calls # <<>>
    /\ calls[Len(calls)].endpoint = "GetCredentialsForIdentity"
    /\ ~calls[Len(calls)].ok

\* C24: whenever the session holds a connection, it was opened with the
\* temporary credentials and the client identifier the session now stores;
\* and a health check that gets past the OAuth tier and finds the temporary
\* credentials stale disconnects the connection it found, and ends either
\* without a handle or with one opened on credentials derived in that check.
C24_HandleRotatesWithCredentials ==
    [][/\ ~IsNone(mqtt_connection')
          => /\ mqtt_connection'.aws_creds = aws_creds'
             /\ mqtt_connection'.client_id = client_id'
       /\ /\ Ran("_async_update_data")
          /\ OAuthSucceeded(calls')
          /\ ~IsNone(mqtt_connection)
          /\ ~is_cognito_valid(Before, now)
          => /\ Count(calls', "mqtt_disconnect") = 1
             /\ \/ IsNone(mqtt_connection')
                \/ /\ Count(calls', "GetCredentialsForIdentity") = 1
                   /\ Count(calls', "mqtt_connect") = 1]_vars

\* a health check replaced a connection and its credentials by ones under
\* another identity
C24_Witness ==
    /\ op = "_async_update_data"
    /\ ~IsNone(mqtt_connection)
    /\ mqtt_connection.aws_creds = aws_creds
    /\ \E i \in DOMAIN calls :
         /\ calls[i].endpoint = "mqtt_disconnect"
         /\ calls[i].arg # mqtt_connection.client_id

\* C25: of a frame received on the command-response topic only the contents
\* of its payload field are merged: requestId, a field of the envelope that no
\* state mapping carries, is never a key of the snapshot, nor of what
\* observers are given.
C25_EnvelopeNeverMerged ==
    /\ "requestId" \notin DOMAIN state
    /\ "requestId" \notin DOMAIN data

\* the three stored values are those of one complete answer of the token
\* endpoint received in this step, and they are persisted
ReplacedWholesale ==
    \E b \in OAuthBodies :
        /\ {"access_token", "refresh_token"} \subseteq DOMAIN b
        /\ "expires_in" \in DOMAIN b => IsNumeric(b.expires_in)
        /\ access_token' = b.access_token
        /\ refresh_token' = b.refresh_token
        /\ token_expires' = now + (IF "expires_in" \in DOMAIN b
                                  THEN ToFloat(b.expires_in) ELSE DEFAULT_EXPIRES_IN)
        /\ entry_data' = [access_token  |-> access_token',
                          refresh_token |-> refresh_token',
                          token_expires |-> token_expires']

\* C26: after a handler that attempted OAuth exchanges, whatever the token
\* endpoint answered, access token, refresh token and expiry are either all
\* three as before or all three those of one answer, persisted.
C26_TokensReplacedWholesale ==
    [][(\E h \in Ensures : Ran(h)) /\ Count(calls', "oauth_token") > 0
       => \/ UNCHANGED <<access_token, refresh_token, token_expires, entry_data>>
          \/ ReplacedWholesale]_vars

C28_HandleMeansSubscribed ==
    [][/\ Ran("async_setup_entry") \/ Ran("_async_update_data")
       /\ ~IsNone(mqtt_connection')
       => subscribed' = BothTopics(mqtt_connection'.client_id)]_vars

\* the host has unloaded the entry it had set up: async_unload_entry is over
TornDown == setup_result = "True" /\ ~registered

\* C29: once the host's teardown has completed the session holds no
\* connection, and never acquires one again, also when a health check or its
\* reconnect was in progress when the teardown was called.
C29_NoHandleAfterTeardown == TornDown => IsNone(mqtt_connection)

\* C30: no subscribe, publish or disconnect is executed against an absent
\* connection: however a command send, a resubscription scheduled by
\* _on_mqtt_resumed and a shutdown or reconnect interleave, the call made on
\* the worker finds the connection it was scheduled for, so that no handler
\* ends with the AttributeError of a call on None.
C30_WorkerCallFindsHandle ==
    [][\A handler \in {"_subscribe_topics", "async_shutdown", "async_shutdown_and_reconnect",
                       "async_stop_cooking", "async_set_cavity_light"} :
           Ran(handler) => raised' # "AttributeError"]_vars

\* C31: a setup that fails leaves no open connection: when async_setup_entry
\* returns False the session holds no connection, also when async_setup
\* raised after the connection had been opened.
C31_FailedSetupHoldsNoConnection ==
    [][Ran("async_setup_entry") /\ setup_result' = "False"
       => IsNone(mqtt_connection')]_vars

\* C32: in every reachable state the client identifier is absent together
\* with the federated identity id, or it is that identity id followed by
\* "_ha"; the two are set together, also when the credential exchange that
\* follows fails.
C32_ClientIdPairedWithIdentity ==
    \/ cognito_identity_id = None /\ client_id = None
    \/ cognito_identity_id # None /\ client_id = ClientIdOf(cognito_identity_id)

\* the identity was stored and the exchange that followed failed
C32_Witness ==
    /\ op = "_ensure_cognito_creds"
    /\ raised = "CredentialExchangeError"
    /\ Len(calls) > 0
    /\ calls[Len(calls)].endpoint = "GetCredentialsForIdentity"
    /\ ~calls[Len(calls)].ok
    /\ aws_creds = None
    /\ cognito_identity_id = "id2"
    /\ client_id = "id2_ha"

\* C33: merging is idempotent under duplicate delivery: when the frame merged
\* is the one that was merged just before it, the snapshot after the second
\* merge is the snapshot after the first, whatever the frame and the snapshot.
C33_DuplicateMergeIdempotent ==
    [][/\ Ran("_apply_state_update")
       /\ Len(merged') = 2
       /\ merged'[1] = merged'[2]
       => state' = state]_vars

\* the same frame, one that carries fields, has been merged twice in a row
\* into a snapshot that held other values before
C33_Witness ==
    /\ op = "_apply_state_update"
    /\ Len(merged) = 2
    /\ merged[1] = merged[2]
    /\ "primaryCavity" \in DOMAIN merged[2]
    /\ DOMAIN merged[2]["primaryCavity"] # {}
    /\ state["primaryCavity"] = merged[2]["primaryCavity"]
    /\ last_write # state

\* C34: on a host that runs the update listeners of an entry whenever its
\* data changes, an OAuth refresh that succeeds during a health check of a
\* running session does not end that session: the update listener the host
\* runs for it leaves the connection and the accumulated snapshot in place,
\* and no newly set-up session with an empty snapshot takes their place.
C34_TokenRefreshKeepsSession ==
    [][Ran("_async_update_listener")
       => /\ state' = state
          /\ mqtt_connection' = mqtt_connection
          /\ \A i \in DOMAIN calls' : calls'[i].endpoint # "mqtt_disconnect"]_vars

=============================================================================
